---------------------------- MODULE Spec2Model ----------------------------
(***************************************************************************)
(* node-security-tools: src/subdomain-enum.js and the scoring of the       *)
(* other analyzers (header-scan.js, ssl-checker.js, cors-check.js,         *)
(* cors-checker.js, link-extractor.js).                                    *)
(*                                                                         *)
(* One run of the subdomain tool: the crt.sh query, the merge of the       *)
(* candidate sources, the batched DNS resolution and the hand-over of the  *)
(* result. Each other analyzer is a run of its own, with a specification   *)
(* of its own in which the remaining tools stay idle.                      *)
(* A JavaScript string is a sequence of one-character strings, so that     *)
(* split, replace, trim, toLowerCase, endsWith and the default sort do     *)
(* what the engine does to the characters.                                 *)
(***************************************************************************)
EXTENDS Integers, Sequences, FiniteSets, TLC

VARIABLES
    pc,             \* where the run is
    domain,         \* args.find(a => !a.startsWith('--')), or Undefined
    response,       \* what crt.sh answered (NoResponse before the answer)
    crtSubdomains,  \* fetchCrtSh's return value
    result,         \* the result object of enumerateSubdomains
    allSubdomains,  \* the merged, sorted candidate list
    batchSize,      \* const batchSize
    i,              \* the batch loop's index
    batch,          \* the slice of allSubdomains being resolved
    results,        \* the promises handed to Promise.all, by position
    inflight,       \* names given to resolve4 that have no answer yet
    issued,         \* every name given to resolve4, in the order of the calls
    replies,        \* the resolver's answer to each name answered so far
    crtRequests,    \* how many requests have been sent to crt.sh
    output,         \* the results handed to JSON.stringify or printSummary
    resolverSilent, \* the resolver has stopped answering
    stderr,         \* the lines written by console.error
    exitCode,       \* the exit code the process ended with, none while it runs
    scanPc,         \* header-scan.js: where the run is
    scanResponse,   \* header-scan.js: what the fetch ended in
    scanResult,     \* header-scan.js: the result object of scanHeaders
    sslPc,          \* ssl-checker.js: where the run is
    sslSocket,      \* ssl-checker.js: what tls.connect ended in
    sslResult,      \* ssl-checker.js: the result checkSSL resolved with
    corsPc,         \* cors-check.js: where the run is
    corsUrl,        \* cors-check.js: targetUrl
    corsSent,       \* cors-check.js: the Origin of every request sent so far
    corsResult,     \* cors-check.js: the result object of checkCORS
    analyzePc,      \* cors-checker.js: where the run is
    analyzeIdx,     \* cors-checker.js: how many of TEST_ORIGINS are done
    analyzeResults, \* cors-checker.js: the results object of analyzeCORS
    linkPc,         \* link-extractor.js: where the run is
    linkBody,       \* link-extractor.js: the href values of the page, in order
    linkResult      \* link-extractor.js: the result object of extractLinks

\* the state of subdomain-enum.js
enumVars == <<pc, domain, response, crtSubdomains, result, allSubdomains,
              batchSize, i, batch, results, inflight, issued, replies,
              crtRequests, output, resolverSilent, stderr, exitCode>>

\* the state of header-scan.js
scanVars == <<scanPc, scanResponse, scanResult>>

\* the state of ssl-checker.js
sslVars == <<sslPc, sslSocket, sslResult>>

\* the state of cors-check.js
corsVars == <<corsPc, corsUrl, corsSent, corsResult>>

\* the state of cors-checker.js
analyzeVars == <<analyzePc, analyzeIdx, analyzeResults>>

\* the state of link-extractor.js
linkVars == <<linkPc, linkBody, linkResult>>

\* the state of the tools other than subdomain-enum.js
otherTools == <<scanVars, sslVars, corsVars, analyzeVars, linkVars>>

vars == <<enumVars, otherTools>>

---------------------------------------------------------------------------
(* Bounds of the model *)

\* how many labels of COMMON_SUBDOMAINS the model keeps
WordlistLen == 2

\* how many href attributes a page of link-extractor.js holds at most
MaxLinks == 3

---------------------------------------------------------------------------
(* Characters and strings *)

Upper == <<"A","B","C","D","E","F","G","H","I","J","K","L","M",
           "N","O","P","Q","R","S","T","U","V","W","X","Y","Z">>

Lower == <<"a","b","c","d","e","f","g","h","i","j","k","l","m",
           "n","o","p","q","r","s","t","u","v","w","x","y","z">>

Digits == <<"0","1","2","3","4","5","6","7","8","9">>

Range(s) == { s[k] : k \in 1..Len(s) }

IndexIn(s, c) == CHOOSE k \in 1..Len(s) : s[k] = c

\* the UTF-16 code unit of a character
CharCode(c) ==
    IF c \in Range(Lower) THEN 96 + IndexIn(Lower, c)
    ELSE IF c \in Range(Upper) THEN 64 + IndexIn(Upper, c)
    ELSE IF c \in Range(Digits) THEN 47 + IndexIn(Digits, c)
    ELSE CASE c = "\t" -> 9
           [] c = "\n" -> 10
           [] c = "\r" -> 13
           [] c = " "  -> 32
           [] c = "#"  -> 35
           [] c = "*"  -> 42
           [] c = "-"  -> 45
           [] c = "."  -> 46
           [] c = "/"  -> 47
           [] c = ":"  -> 58
           [] c = "@"  -> 64
           [] c = "_"  -> 95

IsWhitespace(c) == c \in {" ", "\t", "\n", "\r"}

\* String.prototype.toLowerCase
toLowerCase(s) ==
    [k \in 1..Len(s) |->
        IF s[k] \in Range(Upper) THEN Lower[IndexIn(Upper, s[k])] ELSE s[k]]

\* String.prototype.endsWith
endsWith(s, suffix) ==
    /\ Len(suffix) <= Len(s)
    /\ SubSeq(s, Len(s) - Len(suffix) + 1, Len(s)) = suffix

\* String.prototype.includes
includes(s, pat) ==
    \E k \in 1..(Len(s) - Len(pat) + 1) : SubSeq(s, k, k + Len(pat) - 1) = pat

\* String.prototype.replace with a string pattern: the first occurrence only
replace(s, pat, rep) ==
    IF includes(s, pat)
    THEN LET k == CHOOSE k \in 1..(Len(s) - Len(pat) + 1) :
                     /\ SubSeq(s, k, k + Len(pat) - 1) = pat
                     /\ \A j \in 1..(k - 1) : SubSeq(s, j, j + Len(pat) - 1) # pat
         IN  SubSeq(s, 1, k - 1) \o rep \o SubSeq(s, k + Len(pat), Len(s))
    ELSE s

RECURSIVE trimStart(_)
trimStart(s) ==
    IF s # <<>> /\ IsWhitespace(Head(s)) THEN trimStart(Tail(s)) ELSE s

RECURSIVE trimEnd(_)
trimEnd(s) ==
    IF s # <<>> /\ IsWhitespace(s[Len(s)])
    THEN trimEnd(SubSeq(s, 1, Len(s) - 1))
    ELSE s

\* String.prototype.trim
trim(s) == trimEnd(trimStart(s))

\* String.prototype.split with a one-character separator
RECURSIVE split(_, _)
split(s, sep) ==
    IF \E k \in 1..Len(s) : s[k] = sep
    THEN LET k == CHOOSE k \in 1..Len(s) :
                     s[k] = sep /\ \A j \in 1..(k - 1) : s[j] # sep
         IN  <<SubSeq(s, 1, k - 1)>> \o split(SubSeq(s, k + 1, Len(s)), sep)
    ELSE <<s>>

\* a < b for two strings, as Array.prototype.sort's default comparison
\* decides it: by code units, a proper prefix first
RECURSIVE StringLess(_, _)
StringLess(a, b) ==
    IF a = <<>> THEN b # <<>>
    ELSE IF b = <<>> THEN FALSE
    ELSE IF Head(a) = Head(b) THEN StringLess(Tail(a), Tail(b))
    ELSE CharCode(Head(a)) < CharCode(Head(b))

\* new Set(...): the elements in insertion order, each once
RECURSIVE SetOf(_)
SetOf(s) ==
    IF s = <<>> THEN <<>>
    ELSE LET front == SetOf(SubSeq(s, 1, Len(s) - 1))
             last  == s[Len(s)]
         IN  IF last \in Range(front) THEN front ELSE Append(front, last)

RECURSIVE InsertSorted(_, _)
InsertSorted(s, x) ==
    IF s = <<>> THEN <<x>>
    ELSE IF StringLess(x, Head(s)) THEN <<x>> \o s
    ELSE <<Head(s)>> \o InsertSorted(Tail(s), x)

\* Array.prototype.sort with no comparator (a stable sort by StringLess)
RECURSIVE sort(_)
sort(s) ==
    IF s = <<>> THEN <<>>
    ELSE InsertSorted(sort(SubSeq(s, 1, Len(s) - 1)), s[Len(s)])

\* Array.prototype.slice(from, to), both 0-based, to exclusive
slice(s, from, to) ==
    SubSeq(s, from + 1, IF to < Len(s) THEN to ELSE Len(s))

---------------------------------------------------------------------------
(* The program's constants and the inputs the model draws from *)

Dot == <<".">>

example_com == <<"e","x","a","m","p","l","e",".","c","o","m">>

\* the same domain as a caller may type it
Example_com == <<"E","x","a","m","p","l","e",".","c","o","m">>

\* domain when argv holds no argument that is not an option
Undefined == <<"undefined">>

Domains == {example_com, Example_com}

\* the first labels of COMMON_SUBDOMAINS, in its order
Wordlist ==
    << <<"w","w","w">>, <<"m","a","i","l">>, <<"f","t","p">>,
       <<"w","e","b","m","a","i","l">> >>

COMMON_SUBDOMAINS ==
    SubSeq(Wordlist, 1, IF WordlistLen < Len(Wordlist) THEN WordlistLen
                        ELSE Len(Wordlist))

\* const batchSize = 20
DefaultBatchSize == 20

\* the batch sizes of the runs the model explores
BatchSizes == {1, 2, 5, DefaultBatchSize}

\* name_value fields of crt.sh records
www_example_com    == <<"w","w","w",".","e","x","a","m","p","l","e",".","c","o","m">>
wild_api           == <<"*",".","a","p","i",".","e","x","a","m","p","l","e",".","c","o","m">>
EVIL_example_com   == <<"E","V","I","L","-","e","x","a","m","p","l","e",".","c","o","m">>
notexample_com     == <<"n","o","t","e","x","a","m","p","l","e",".","c","o","m">>
sub_example_com    == <<"s","u","b",".","e","x","a","m","p","l","e",".","c","o","m">>
inner_wild         == <<"a",".","*",".","e","x","a","m","p","l","e",".","c","o","m">>
double_wild        == <<"*",".","*",".","e","x","a","m","p","l","e",".","c","o","m">>
two_lines          == <<"e","x","a","m","p","l","e",".","c","o","m","\n",
                        "*",".","e","x","a","m","p","l","e",".","c","o","m">>
padded_lines       == <<" ","d","e","v",".","e","x","a","m","p","l","e",".","c","o","m"," ","\n",
                        "W","W","W",".","E","X","A","M","P","L","E",".","C","O","M">>
other_org          == <<"o","t","h","e","r",".","o","r","g">>

NamePool == {www_example_com, wild_api, EVIL_example_com, notexample_com,
             sub_example_com, inner_wild, double_wild, two_lines,
             padded_lines, other_org}

\* a record of the JSON array, with or without a string name_value
Entry(name) == [has_name_value |-> TRUE, name_value |-> name]

NoNameValue == [has_name_value |-> FALSE, name_value |-> <<>>]

\* the body of the example scenario
ExampleBody == <<Entry(www_example_com), Entry(wild_api), Entry(EVIL_example_com)>>

\* a body whose names make the candidate list longer than five
LargeBody == <<Entry(sub_example_com), Entry(padded_lines), Entry(wild_api)>>

Bodies ==
    {<<>>, ExampleBody, LargeBody, <<Entry(sub_example_com), NoNameValue>>}
        \cup { <<Entry(n)>> : n \in NamePool }

\* what the request to crt.sh can end in
Responses ==
    {[kind |-> "network_error", data |-> <<>>],
     [kind |-> "timeout", data |-> <<>>],
     [kind |-> "not_ok", data |-> <<>>],
     [kind |-> "malformed", data |-> <<>>]}
        \cup { [kind |-> "ok", data |-> b] : b \in Bodies }

NoResponse == [kind |-> "none", data |-> <<>>]

\* console.error('Usage: node subdomain-enum.js <domain> [--json]')
UsageMessage == "Usage: node subdomain-enum.js <domain> [--json]"

\* the exit code of a process that has not ended
NotExited == <<>>

\* the process has ended with exit code c
Exited(c) == <<c>>

\* what resolve4 can answer for one name
ResolverReplies ==
    {[ok |-> FALSE, addresses |-> <<>>],
     [ok |-> TRUE, addresses |-> <<"93.184.216.34">>],
     [ok |-> TRUE, addresses |-> <<"93.184.216.34", "93.184.216.35">>]}

---------------------------------------------------------------------------
(* fetchCrtSh *)

\* name.split('\n').map(n => n.replace('*.', '').trim().toLowerCase())
EntryNames(name) ==
    LET parts == split(name, "\n")
    IN  [k \in 1..Len(parts) |->
            toLowerCase(trim(replace(parts[k], <<"*", ".">>, <<>>)))]

\* if (n.endsWith(domain) && !n.includes('*'))
Admitted(n, dom) == endsWith(n, dom) /\ ~includes(n, <<"*">>)

\* the names of one record that reach the set, in order
RECURSIVE AdmittedNames(_, _)
AdmittedNames(names, dom) ==
    IF names = <<>> THEN <<>>
    ELSE IF Admitted(Head(names), dom)
         THEN <<Head(names)>> \o AdmittedNames(Tail(names), dom)
         ELSE AdmittedNames(Tail(names), dom)

\* for (const entry of data) { ... subdomains.add(n) ... }
RECURSIVE CollectEntries(_, _)
CollectEntries(data, dom) ==
    IF data = <<>> THEN <<>>
    ELSE AdmittedNames(EntryNames(Head(data).name_value), dom)
             \o CollectEntries(Tail(data), dom)

\* the records of data before the first one without name_value
RECURSIVE RecordsBeforeThrow(_)
RecordsBeforeThrow(data) ==
    IF data = <<>> \/ ~Head(data).has_name_value THEN <<>>
    ELSE <<Head(data)>> \o RecordsBeforeThrow(Tail(data))

\* faulty variant: the catch returns what the loop had collected
fetchCrtSh_PartialOnThrow(dom, resp) ==
    IF resp.kind # "ok" THEN <<>>
    ELSE SetOf(CollectEntries(RecordsBeforeThrow(resp.data), dom))

\* fetchCrtSh(domain) once the request has ended in resp; a record without
\* name_value makes name.split throw, and the catch returns []
fetchCrtSh(dom, resp) ==
    IF resp.kind # "ok" THEN <<>>
    ELSE IF \E k \in 1..Len(resp.data) : ~resp.data[k].has_name_value THEN <<>>
    ELSE SetOf(CollectEntries(resp.data, dom))

---------------------------------------------------------------------------
(* checkSubdomain and the candidate list *)

\* faulty variant: checkSubdomain without its try/catch: a resolver error rejects
checkSubdomain_NoCatch(subdomain, reply) ==
    IF reply.ok
    THEN [state |-> "fulfilled",
          value |-> [subdomain |-> subdomain, addresses |-> reply.addresses,
                     alive |-> TRUE]]
    ELSE [state |-> "rejected"]

\* faulty variant: the catch reports the name alive, without addresses
checkSubdomain_AliveOnError(subdomain, reply) ==
    IF reply.ok
    THEN [state |-> "fulfilled",
          value |-> [subdomain |-> subdomain, addresses |-> reply.addresses,
                     alive |-> TRUE]]
    ELSE [state |-> "fulfilled",
          value |-> [subdomain |-> subdomain, addresses |-> <<>>,
                     alive |-> TRUE]]

\* checkSubdomain(subdomain) once resolve4 has answered: the promise it
\* returns is fulfilled on either path
checkSubdomain(subdomain, reply) ==
    IF reply.ok
    THEN [state |-> "fulfilled",
          value |-> [subdomain |-> subdomain, addresses |-> reply.addresses,
                     alive |-> TRUE]]
    ELSE [state |-> "fulfilled",
          value |-> [subdomain |-> subdomain, addresses |-> <<>>,
                     alive |-> FALSE]]

\* COMMON_SUBDOMAINS.map(s => `${s}.${targetDomain}`)
bruteSubdomains(targetDomain) ==
    [k \in 1..Len(COMMON_SUBDOMAINS) |->
        COMMON_SUBDOMAINS[k] \o Dot \o targetDomain]

\* faulty variant: the merge without the Set: duplicates survive
Combine_NoSet(targetDomain, crt, brute) ==
    sort(<<targetDomain>> \o crt \o brute)

\* faulty variant: the merge without the base domain
Combine_NoBaseDomain(targetDomain, crt, brute) ==
    sort(SetOf(crt \o brute))

\* faulty variant: the merge without the sort: the names in the order of
\* the sources
Combine_NoSort(targetDomain, crt, brute) ==
    SetOf(<<targetDomain>> \o crt \o brute)

\* [...new Set([targetDomain, ...crtSubdomains, ...bruteSubdomains])].sort()
Combine(targetDomain, crt, brute) ==
    sort(SetOf(<<targetDomain>> \o crt \o brute))

---------------------------------------------------------------------------
(* The batch loop's steps *)

Pending == [state |-> "pending"]

\* batch.map(checkSubdomain): one promise per name of the batch
PendingAll(b) == [k \in 1..Len(b) |-> Pending]

\* faulty variant: a join that ends with the first fulfilled promise
PromiseAll_First(ps) ==
    IF \E k \in 1..Len(ps) : ps[k].state = "rejected" THEN "rejected"
    ELSE IF \E k \in 1..Len(ps) : ps[k].state = "fulfilled" THEN "fulfilled"
    ELSE "pending"

\* Promise.all(ps): rejected as soon as one is, fulfilled once all are
PromiseAll(ps) ==
    IF \E k \in 1..Len(ps) : ps[k].state = "rejected" THEN "rejected"
    ELSE IF \A k \in 1..Len(ps) : ps[k].state = "fulfilled" THEN "fulfilled"
    ELSE "pending"

\* faulty variant: the whole rest of the list in one batch
NextBatch_Unbounded(all, from, size) == slice(all, from, Len(all))

\* faulty variant: the slice reaches one name into the next batch
NextBatch_Overlap(all, from, size) == slice(all, from, from + size + 1)

\* allSubdomains.slice(i, i + batchSize)
NextBatch(all, from, size) == slice(all, from, from + size)

\* faulty variant: the index steps one too far
NextIndex_Skip(from, size) == from + size + 1

\* i += batchSize
NextIndex(from, size) == from + size

\* faulty variant: the results pushed last to first
RECURSIVE PushAlive_Reversed(_, _)
PushAlive_Reversed(alive, rs) ==
    IF rs = <<>> THEN alive
    ELSE LET r == rs[Len(rs)]
             rest == SubSeq(rs, 1, Len(rs) - 1)
         IN  IF r.state = "fulfilled" /\ r.value.alive
             THEN PushAlive_Reversed(
                      Append(alive, [subdomain |-> r.value.subdomain,
                                     addresses |-> r.value.addresses]),
                      rest)
             ELSE PushAlive_Reversed(alive, rest)

\* faulty variant: the alive ones of the batch replace the alive list
RECURSIVE PushAlive_Replace(_, _)
PushAlive_Replace(alive, rs) ==
    IF rs = <<>> THEN <<>>
    ELSE IF Head(rs).state = "fulfilled" /\ Head(rs).value.alive
         THEN <<[subdomain |-> Head(rs).value.subdomain,
                 addresses |-> Head(rs).value.addresses]>>
                 \o PushAlive_Replace(alive, Tail(rs))
         ELSE PushAlive_Replace(alive, Tail(rs))

\* for (const r of results) if (r.alive) result.alive.push({...})
RECURSIVE PushAlive(_, _)
PushAlive(alive, rs) ==
    IF rs = <<>> THEN alive
    ELSE IF Head(rs).state = "fulfilled" /\ Head(rs).value.alive
         THEN PushAlive(
                  Append(alive, [subdomain |-> Head(rs).value.subdomain,
                                 addresses |-> Head(rs).value.addresses]),
                  Tail(rs))
         ELSE PushAlive(alive, Tail(rs))

\* the result object as enumerateSubdomains creates it
NewResult(targetDomain) ==
    [domain    |-> targetDomain,
     sources   |-> <<>>,
     subdomains |-> <<>>,
     alive     |-> <<>>,
     summary   |-> [total_found |-> 0, alive_count |-> 0]]

---------------------------------------------------------------------------
(* header-scan.js *)

\* the keys of SECURITY_HEADERS, in the order of the object literal
SECURITY_HEADERS ==
    <<[key |-> "strict-transport-security", severity |-> "high"],
      [key |-> "content-security-policy", severity |-> "high"],
      [key |-> "x-frame-options", severity |-> "medium"],
      [key |-> "x-content-type-options", severity |-> "medium"],
      [key |-> "x-xss-protection", severity |-> "low"],
      [key |-> "referrer-policy", severity |-> "low"],
      [key |-> "permissions-policy", severity |-> "low"],
      [key |-> "x-permitted-cross-domain-policies", severity |-> "low"]>>

HeaderKeys == { SECURITY_HEADERS[k].key : k \in 1..Len(SECURITY_HEADERS) }

\* response.headers.get(key): null for a header the response does not
\* carry, else its value, which may be the empty string
NoHeader == "null"

HeaderValues == {NoHeader, "", "1"}

\* what the fetch of header-scan.js can end in
ScanResponses ==
    {[kind |-> "error", headers |-> [h \in HeaderKeys |-> NoHeader]]}
        \cup { [kind |-> "ok", headers |-> hs] :
                   hs \in [HeaderKeys -> HeaderValues] }

\* if (value): null and the empty string are falsy
Truthy(value) == value # NoHeader /\ value # ""

\* the entries the loop over SECURITY_HEADERS pushes to result.security.present
PresentHeaders(headers) ==
    SelectSeq(SECURITY_HEADERS, LAMBDA h : Truthy(headers[h.key]))

\* the entries the loop pushes to result.security.missing
MissingHeaders(headers) ==
    SelectSeq(SECURITY_HEADERS, LAMBDA h : ~Truthy(headers[h.key]))

\* Math.round(n / d) for n >= 0 and d > 0
MathRound(n, d) == (2 * n + d) \div (2 * d)

\* faulty variant: the score cut off, not rounded
SecurityScore_Floor(present, total) == (present * 100) \div total

\* Math.round((result.security.present.length / total) * 100)
SecurityScore(present, total) == MathRound(present * 100, total)

\* getGrade(score)
getGrade(score) ==
    IF score >= 90 THEN "A"
    ELSE IF score >= 75 THEN "B"
    ELSE IF score >= 60 THEN "C"
    ELSE IF score >= 40 THEN "D"
    ELSE "F"

\* the result object as scanHeaders creates it
NewScanResult ==
    [security |-> [present |-> <<>>, missing |-> <<>>, score |-> 0,
                   grade |-> "undefined"],
     error |-> FALSE]

\* no response yet
NoScanResponse == [kind |-> "none", headers |-> [h \in HeaderKeys |-> NoHeader]]

ScanIdle ==
    /\ scanPc = "idle"
    /\ scanResponse = NoScanResponse
    /\ scanResult = NewScanResult

\* scanHeaders(url) up to the await of fetch
ScanStart ==
    /\ UNCHANGED <<sslVars, corsVars, analyzeVars, linkVars>>
    /\ scanPc = "main"
    /\ scanResult' = NewScanResult
    /\ scanPc' = "fetch"
    /\ UNCHANGED <<enumVars, scanResponse>>

\* the fetch ends and scanHeaders runs to its return: the lists, the score
\* and the grade, or result.error from the catch
ScanHeaders ==
    /\ UNCHANGED <<sslVars, corsVars, analyzeVars, linkVars>>
    /\ scanPc = "fetch"
    /\ \E resp \in ScanResponses :
          /\ scanResponse' = resp
          /\ IF resp.kind = "error"
             THEN scanResult' = [scanResult EXCEPT !.error = TRUE]
             ELSE LET present == PresentHeaders(resp.headers)
                      missing == MissingHeaders(resp.headers)
                      score   == SecurityScore(Len(present),
                                               Len(SECURITY_HEADERS))
                  IN  scanResult' = [scanResult EXCEPT
                          !.security = [present |-> present,
                                        missing |-> missing,
                                        score |-> score,
                                        grade |-> getGrade(score)]]
    /\ scanPc' = "returned"
    /\ UNCHANGED enumVars

\* .then(result => ...): the result is printed
ScanPrint ==
    /\ UNCHANGED <<sslVars, corsVars, analyzeVars, linkVars>>
    /\ scanPc = "returned"
    /\ scanPc' = "printed"
    /\ UNCHANGED <<enumVars, scanResponse, scanResult>>

---------------------------------------------------------------------------
(* ssl-checker.js *)

\* socket.getProtocol()
SslProtocols == {"TLSv1", "TLSv1.1", "TLSv1.2", "TLSv1.3"}

\* what tls.connect can end in: the connect callback with the peer's
\* certificate (or none), the library's verdict, the protocol and the
\* cipher (bits 0: getCipher gave nothing), an error or the time-out
SslSockets ==
    { [event |-> "secureConnect", hasCert |-> c, daysRemaining |-> d,
       selfSigned |-> s, authorized |-> a, protocol |-> p, cipherBits |-> b] :
         c \in BOOLEAN, d \in {-1, 29, 30}, s \in BOOLEAN, a \in BOOLEAN,
         p \in SslProtocols, b \in {0, 56, 256} }
      \cup
    { [event |-> e, hasCert |-> FALSE, daysRemaining |-> 30,
       selfSigned |-> FALSE, authorized |-> FALSE, protocol |-> "TLSv1.2",
       cipherBits |-> 0] : e \in {"error", "timeout"} }

NoSocket ==
    [event |-> "none", hasCert |-> FALSE, daysRemaining |-> 30,
     selfSigned |-> FALSE, authorized |-> FALSE, protocol |-> "TLSv1.2",
     cipherBits |-> 0]

\* result.issues.push({ type, severity, message })
Issue(type, severity) == [type |-> type, severity |-> severity]

\* the issues the connect callback pushes, in its order
ConnectIssues(sock) ==
    (IF sock.hasCert /\ sock.daysRemaining < 0
        THEN <<Issue("expired", "critical")>>
     ELSE IF sock.hasCert /\ sock.daysRemaining < 30
        THEN <<Issue("expiring_soon", "warning")>>
     ELSE <<>>)
    \o (IF sock.hasCert /\ sock.selfSigned
           THEN <<Issue("self_signed", "warning")>> ELSE <<>>)
    \o (IF ~sock.authorized
           THEN <<Issue("not_trusted", "warning")>> ELSE <<>>)
    \o (IF sock.protocol \in {"TLSv1", "TLSv1.1"}
           THEN <<Issue("weak_protocol", "medium")>> ELSE <<>>)
    \o (IF sock.cipherBits # 0 /\ sock.cipherBits < 128
           THEN <<Issue("weak_cipher", "high")>> ELSE <<>>)

\* the value the promise of checkSSL resolves with
checkSSL(sock) ==
    IF sock.event = "secureConnect"
    THEN [connected |-> TRUE, authorized |-> sock.authorized,
          protocol |-> sock.protocol, issues |-> ConnectIssues(sock),
          grade |-> "undefined"]
    ELSE [connected |-> FALSE, authorized |-> FALSE, protocol |-> "undefined",
          issues |-> <<>>, grade |-> "undefined"]

\* the switch on issue.severity
SeverityPenalty(severity) ==
    CASE severity = "critical" -> 50
      [] severity = "high" -> 30
      [] severity = "medium" -> 15
      [] severity = "warning" -> 5
      [] OTHER -> 0

\* for (const issue of result.issues) score -= ...
RECURSIVE IssuesPenalty(_)
IssuesPenalty(issues) ==
    IF issues = <<>> THEN 0
    ELSE SeverityPenalty(Head(issues).severity) + IssuesPenalty(Tail(issues))

\* score before Math.max(0, Math.min(100, score))
RawScore(res) ==
    100 - IssuesPenalty(res.issues)
        - (IF ~res.authorized THEN 20 ELSE 0)
        + (IF res.protocol = "TLSv1.3" THEN 10 ELSE 0)

\* Math.max(0, Math.min(100, score))
ClampScore(score) ==
    LET low == IF score < 100 THEN score ELSE 100
    IN  IF low > 0 THEN low ELSE 0

\* calculateGrade(result)
calculateGrade(res) ==
    IF ~res.connected THEN "N/A"
    ELSE LET score == ClampScore(RawScore(res))
         IN  IF score >= 90 THEN "A"
             ELSE IF score >= 80 THEN "B"
             ELSE IF score >= 70 THEN "C"
             ELSE IF score >= 60 THEN "D"
             ELSE "F"

SslIdle ==
    /\ sslPc = "idle"
    /\ sslSocket = NoSocket
    /\ sslResult = checkSSL(NoSocket)

\* checkSSL(hostname, port): tls.connect is called
SslConnect ==
    /\ sslPc = "main"
    /\ sslPc' = "connecting"
    /\ UNCHANGED <<enumVars, scanVars, corsVars, analyzeVars, linkVars,
                   sslSocket, sslResult>>

\* the connect callback, the error handler or the time-out handler runs
\* and the promise of checkSSL resolves
SslResolve ==
    /\ sslPc = "connecting"
    /\ \E sock \in SslSockets :
          /\ sslSocket' = sock
          /\ sslResult' = checkSSL(sock)
    /\ sslPc' = "resolved"
    /\ UNCHANGED <<enumVars, scanVars, corsVars, analyzeVars, linkVars>>

\* printResults(result, jsonOutput): result.grade = calculateGrade(result)
SslPrint ==
    /\ sslPc = "resolved"
    /\ sslResult' = [sslResult EXCEPT !.grade = calculateGrade(sslResult)]
    /\ sslPc' = "printed"
    /\ UNCHANGED <<enumVars, scanVars, corsVars, analyzeVars, linkVars,
                   sslSocket>>

---------------------------------------------------------------------------
(* cors-check.js *)

\* String.prototype.startsWith
startsWith(s, prefix) ==
    Len(prefix) <= Len(s) /\ SubSeq(s, 1, Len(prefix)) = prefix

https_ == <<"h","t","t","p","s",":","/","/">>

http_ == <<"h","t","t","p",":","/","/">>

\* the url argument as a caller may type it
CorsUrls == {<<"a",".","i","o">>, <<"h","t","t","p",":","/","/","a",".","i","o">>}

\* a header the response does not carry: headers.get gives null
NullHeader == <<"null-value">>

Star == <<"*">>

\* if (!targetUrl.startsWith('http://') && !targetUrl.startsWith('https://'))
NormalizeTarget(targetUrl) ==
    IF ~startsWith(targetUrl, http_) /\ ~startsWith(targetUrl, https_)
    THEN https_ \o targetUrl
    ELSE targetUrl

\* new URL(targetUrl).protocol, for a url that starts with its scheme
UrlProtocol(targetUrl) == split(targetUrl, ":")[1] \o <<":">>

\* new URL(targetUrl).host, for a url that starts with its scheme
UrlHost(targetUrl) == toLowerCase(split(targetUrl, "/")[3])

\* const testOrigins = [...]
testOrigins(targetUrl) ==
    LET host == UrlHost(targetUrl)
        baseOrigin == UrlProtocol(targetUrl) \o <<"/", "/">> \o host
    IN  <<[origin |-> baseOrigin, name |-> "Same origin", expected |-> "allowed"],
          [origin |-> https_ \o <<"e","v","i","l",".","c","o","m">>, name |-> "Arbitrary origin",
           expected |-> "blocked"],
          [origin |-> <<"n","u","l","l">>, name |-> "Null origin", expected |-> "blocked"],
          [origin |-> https_ \o host \o <<".">> \o <<"e","v","i","l",".","c","o","m">>,
           name |-> "Subdomain spoof", expected |-> "blocked"],
          [origin |-> https_ \o <<"e","v","i","l">> \o host, name |-> "Prefix attack",
           expected |-> "blocked"],
          [origin |-> replace(baseOrigin, https_, http_),
           name |-> "HTTP downgrade", expected |-> "blocked"]>>

\* what one OPTIONS request can end in: fetch throws, or a response with
\* or without the two headers
CorsOutcomes(origin) ==
    {[kind |-> "error", acao |-> NullHeader, acac |-> FALSE],
     [kind |-> "ok", acao |-> NullHeader, acac |-> FALSE]}
       \cup { [kind |-> "ok", acao |-> a, acac |-> c] :
                 a \in {Star, origin}, c \in BOOLEAN }

\* the status the try block gives the test
TestStatus(test, out) ==
    IF test.expected = "blocked" /\ out.acao = test.origin THEN "vulnerable"
    ELSE IF test.expected = "blocked" /\ out.acao = Star /\ out.acac
         THEN "vulnerable"
    ELSE IF test.expected = "blocked" /\ out.acao = Star THEN "warning"
    ELSE "secure"

\* the entries the try block pushes to result.vulnerabilities
TestVulnerabilities(test, out) ==
    IF test.expected = "blocked" /\ out.acao = test.origin
    THEN <<[type |-> "Origin Reflection",
            severity |-> IF out.acac THEN "HIGH" ELSE "MEDIUM"]>>
    ELSE IF test.expected = "blocked" /\ out.acao = Star /\ out.acac
    THEN <<[type |-> "Wildcard with Credentials", severity |-> "CRITICAL"]>>
    ELSE <<>>

\* one pass of the loop body once the request has ended in out
ProbeResult(res, test, out) ==
    IF out.kind = "error"
    THEN [res EXCEPT
            !.tests = Append(@, [test |-> test.name, origin_sent |-> test.origin,
                                 status |-> "error"]),
            !.summary.total_tests = @ + 1]
    ELSE LET status == TestStatus(test, out)
         IN  [res EXCEPT
                !.tests = Append(@, [test |-> test.name,
                                     origin_sent |-> test.origin,
                                     reflected |-> out.acao = test.origin,
                                     wildcard |-> out.acao = Star,
                                     credentials_allowed |-> out.acac,
                                     status |-> status]),
                !.vulnerabilities = @ \o TestVulnerabilities(test, out),
                !.summary.total_tests = @ + 1,
                !.summary.vulnerable = IF status = "vulnerable" THEN @ + 1 ELSE @,
                !.summary.secure = IF status = "vulnerable" THEN @ ELSE @ + 1]

\* result.vulnerabilities.some(v => v.severity === severity)
SomeSeverity(vulns, severity) ==
    \E k \in 1..Len(vulns) : vulns[k].severity = severity

\* faulty variant: HIGH is looked for before CRITICAL
RiskLevel_HighFirst(vulns) ==
    IF SomeSeverity(vulns, "HIGH") THEN "HIGH"
    ELSE IF SomeSeverity(vulns, "CRITICAL") THEN "CRITICAL"
    ELSE IF SomeSeverity(vulns, "MEDIUM") THEN "MEDIUM"
    ELSE IF Len(vulns) > 0 THEN "LOW"
    ELSE "NONE"

\* // Determine overall risk
RiskLevel(vulns) ==
    IF SomeSeverity(vulns, "CRITICAL") THEN "CRITICAL"
    ELSE IF SomeSeverity(vulns, "HIGH") THEN "HIGH"
    ELSE IF SomeSeverity(vulns, "MEDIUM") THEN "MEDIUM"
    ELSE IF Len(vulns) > 0 THEN "LOW"
    ELSE "NONE"

\* the result object as checkCORS creates it
NewCorsResult ==
    [tests |-> <<>>, vulnerabilities |-> <<>>,
     summary |-> [total_tests |-> 0, vulnerable |-> 0, secure |-> 0],
     risk_level |-> "undefined"]

CorsIdle ==
    /\ corsPc = "idle"
    /\ corsUrl = <<>>
    /\ corsSent = <<>>
    /\ corsResult = NewCorsResult

\* checkCORS(url) up to the loop: the url gets its scheme and the result
\* object is created
CorsStart ==
    /\ corsPc = "main"
    /\ corsUrl' = NormalizeTarget(corsUrl)
    /\ corsResult' = NewCorsResult
    /\ corsPc' = "loop"
    /\ UNCHANGED <<enumVars, scanVars, sslVars, analyzeVars, linkVars,
                   corsSent>>

\* the loop takes its next test and fetch sends the request
CorsSend ==
    /\ corsPc = "loop"
    /\ Len(corsResult.tests) < Len(testOrigins(corsUrl))
    /\ corsSent' = Append(corsSent,
                       testOrigins(corsUrl)[Len(corsResult.tests) + 1].origin)
    /\ corsPc' = "await"
    /\ UNCHANGED <<enumVars, scanVars, sslVars, analyzeVars, linkVars,
                   corsUrl, corsResult>>

\* faulty variant: a request that throws ends the loop
CorsSettle_StopOnError ==
    /\ corsPc = "await"
    /\ LET test == testOrigins(corsUrl)[Len(corsResult.tests) + 1]
       IN  \E out \in CorsOutcomes(test.origin) :
              /\ corsResult' =
                    IF out.kind = "error"
                    THEN [corsResult EXCEPT
                            !.risk_level = RiskLevel(corsResult.vulnerabilities)]
                    ELSE ProbeResult(corsResult, test, out)
              /\ corsPc' = IF out.kind = "error" THEN "returned" ELSE "loop"
    /\ UNCHANGED <<enumVars, scanVars, sslVars, analyzeVars, linkVars,
                   corsUrl, corsSent>>

\* the request ends and the rest of the loop body runs
CorsSettle ==
    /\ corsPc = "await"
    /\ LET test == testOrigins(corsUrl)[Len(corsResult.tests) + 1]
       IN  \E out \in CorsOutcomes(test.origin) :
              corsResult' = ProbeResult(corsResult, test, out)
    /\ corsPc' = "loop"
    /\ UNCHANGED <<enumVars, scanVars, sslVars, analyzeVars, linkVars,
                   corsUrl, corsSent>>

\* the loop is done: the risk level is set and the result returned
CorsReturn ==
    /\ corsPc = "loop"
    /\ ~(Len(corsResult.tests) < Len(testOrigins(corsUrl)))
    /\ corsResult' = [corsResult EXCEPT
                         !.risk_level = RiskLevel(corsResult.vulnerabilities)]
    /\ corsPc' = "returned"
    /\ UNCHANGED <<enumVars, scanVars, sslVars, analyzeVars, linkVars,
                   corsUrl, corsSent>>

---------------------------------------------------------------------------
(* cors-checker.js *)

null_ == <<"n","u","l","l">>

evil_origin == https_ \o <<"e","v","i","l",".","c","o","m">>

TEST_ORIGINS ==
    <<evil_origin,
      https_ \o <<"a","t","t","a","c","k","e","r",".","e","x","a","m","p","l","e",".","c","o","m">>,
      null_,
      https_ \o <<"e","x","a","m","p","l","e",".","c","o","m",".","e","v","i","l",".","c","o","m">>>>

\* what one OPTIONS request of checkCORS can end in: the promise rejects,
\* or resolves with or without the two headers
AnalyzeOutcomes(origin) ==
    {[kind |-> "error", acao |-> NullHeader, acac |-> FALSE],
     [kind |-> "ok", acao |-> NullHeader, acac |-> FALSE]}
       \cup { [kind |-> "ok", acao |-> a, acac |-> c] :
                 a \in {Star, origin, null_}, c \in BOOLEAN }

\* results.findings.push({ type, severity, message, origin })
Finding(type, severity) == [type |-> type, severity |-> severity]

\* if (response.acao === '*') { ... }
AfterWildcard(res, origin, out) ==
    IF out.acao # Star THEN res
    ELSE IF out.acac
    THEN [res EXCEPT
            !.findings = @ \o <<Finding("wildcard_origin", "medium"),
                                Finding("wildcard_with_credentials", "critical")>>,
            !.severity = "critical"]
    ELSE [res EXCEPT
            !.findings = Append(@, Finding("wildcard_origin", "medium"))]

\* if (response.acao === origin) { ... }
AfterReflected(res, origin, out) ==
    IF out.acao # origin THEN res
    ELSE IF out.acac
    THEN [res EXCEPT
            !.findings = @ \o <<Finding("reflected_origin", "high"),
                                Finding("reflected_with_credentials", "critical")>>,
            !.severity = "critical"]
    ELSE [res EXCEPT
            !.findings = Append(@, Finding("reflected_origin", "high")),
            !.severity = IF @ # "critical" THEN "high" ELSE @]

\* if (response.acao === 'null') { ... }
AfterNull(res, origin, out) ==
    IF out.acao # null_ THEN res
    ELSE [res EXCEPT
            !.findings = Append(@, Finding("null_origin", "medium")),
            !.severity = IF @ = "info" THEN "medium" ELSE @]

\* one pass of the loop over TEST_ORIGINS once checkCORS has settled
AnalyzeResponse(res, origin, out) ==
    IF out.kind = "error" THEN res
    ELSE LET pushed == [res EXCEPT !.tests = Append(@, out)]
         IN  IF out.acao = NullHeader THEN pushed
             ELSE AfterNull(
                      AfterReflected(
                          AfterWildcard([pushed EXCEPT !.corsEnabled = TRUE],
                                        origin, out),
                          origin, out),
                      origin, out)

\* the GET request with Origin https://evil.com once it has settled
AnalyzeGetResponse(res, out) ==
    IF /\ out.kind = "ok"
       /\ out.acao = evil_origin
       /\ ~\E k \in 1..Len(res.findings) :
              res.findings[k].type = "reflected_origin"
    THEN [res EXCEPT
            !.findings = Append(@, Finding("reflected_origin_get", "high")),
            !.severity = IF @ # "critical" THEN "high" ELSE @]
    ELSE res

\* the results object as analyzeCORS creates it
NewAnalyzeResults ==
    [corsEnabled |-> FALSE, findings |-> <<>>, severity |-> "info",
     tests |-> <<>>]

AnalyzeIdle ==
    /\ analyzePc = "idle"
    /\ analyzeIdx = 0
    /\ analyzeResults = NewAnalyzeResults

\* analyzeCORS(url) up to the loop
AnalyzeStart ==
    /\ analyzePc = "main"
    /\ analyzeResults' = NewAnalyzeResults
    /\ analyzeIdx' = 0
    /\ analyzePc' = "loop"
    /\ UNCHANGED <<enumVars, scanVars, sslVars, corsVars, linkVars>>

\* one pass of the loop: the request for the next origin is sent, settles
\* and is analysed
AnalyzeTest ==
    /\ analyzePc = "loop"
    /\ analyzeIdx < Len(TEST_ORIGINS)
    /\ LET origin == TEST_ORIGINS[analyzeIdx + 1]
       IN  \E out \in AnalyzeOutcomes(origin) :
              analyzeResults' = AnalyzeResponse(analyzeResults, origin, out)
    /\ analyzeIdx' = analyzeIdx + 1
    /\ UNCHANGED <<enumVars, scanVars, sslVars, corsVars, linkVars,
                   analyzePc>>

\* the loop is done: the GET request is sent, settles and is analysed, and
\* results is returned
AnalyzeGet ==
    /\ analyzePc = "loop"
    /\ ~(analyzeIdx < Len(TEST_ORIGINS))
    /\ \E out \in AnalyzeOutcomes(evil_origin) :
          analyzeResults' = AnalyzeGetResponse(analyzeResults, out)
    /\ analyzePc' = "returned"
    /\ UNCHANGED <<enumVars, scanVars, sslVars, corsVars, linkVars,
                   analyzeIdx>>

---------------------------------------------------------------------------
(* link-extractor.js *)

\* targetUrl, and with it parsedBase
LinkBase == https_ \o example_com

\* the values hrefRegex can capture from a page
LinkHrefs ==
    {<<"/","a","b","o","u","t">>,
     <<"h","t","t","p","s",":","/","/","E","X","A","M","P","L","E",".","c","o","m","/","a","b","o","u","t">>,
     <<"h","t","t","p","s",":","/","/","b","l","o","g",".","e","x","a","m","p","l","e",".","c","o","m","/">>,
     <<"h","t","t","p","s",":","/","/","e","v","i","l","e","x","a","m","p","l","e",".","c","o","m","/">>,
     <<"/","/","c","d","n",".","e","x","a","m","p","l","e",".","c","o","m","/","x">>,
     <<"#","t","o","p">>,
     <<"m","a","i","l","t","o",":","a","@","e","x","a","m","p","l","e",".","c","o","m">>,
     <<"j","a","v","a","s","c","r","i","p","t",":","x">>,
     <<"h","t","t","p",":","/","/">>,
     <<"t","e","l",":","1">>}

\* the pages: the captured values in document order
RECURSIVE LinkBodies(_)
LinkBodies(n) ==
    IF n = 0 THEN {<<>>}
    ELSE LET shorter == LinkBodies(n - 1)
         IN  shorter \cup { Append(b, h) : b \in shorter, h \in LinkHrefs }

\* new URL(link, baseUrl): whether it parses, and its hostname and href.
\* A link with http(s) scheme or a leading // carries its own host, which
\* is lower-cased and must not be empty; a link with another scheme has
\* no host; every other link is resolved against the base, whose path is /
UrlOf(link, baseUrl) ==
    LET abs == IF startsWith(link, https_) \/ startsWith(link, http_)
                  THEN link
               ELSE IF startsWith(link, <<"/", "/">>)
                  THEN UrlProtocol(baseUrl) \o link
               ELSE <<>>
    IN  IF abs # <<>>
        THEN LET parts == split(abs, "/")
                 host  == toLowerCase(parts[3])
                 path  == SubSeq(abs, Len(parts[1]) + Len(parts[3]) + 3, Len(abs))
             IN  [ok |-> host # <<>>, hostname |-> host,
                  href |-> parts[1] \o <<"/", "/">> \o host
                              \o (IF path = <<>> THEN <<"/">> ELSE path)]
        ELSE IF includes(link, <<":">>)
        THEN [ok |-> TRUE, hostname |-> <<>>, href |-> link]
        ELSE [ok |-> TRUE, hostname |-> UrlHost(baseUrl),
              href |-> UrlProtocol(baseUrl) \o <<"/", "/">> \o UrlHost(baseUrl)
                          \o (IF startsWith(link, <<"/">>) THEN link
                              ELSE <<"/">> \o link)]

\* the links processLink returns from before it parses them
Skipped(link) ==
    \/ startsWith(link, <<"#">>)
    \/ startsWith(link, <<"j","a","v","a","s","c","r","i","p","t",":">>)
    \/ startsWith(link, <<"d","a","t","a",":">>)
    \/ startsWith(link, <<"m","a","i","l","t","o",":">>)

\* faulty variant: the subdomain test without the "." before the base host
processLink_BareSuffix(links, link, baseDomain, baseUrl) ==
    LET fullUrl == UrlOf(link, baseUrl)
    IN  IF Skipped(link) \/ ~fullUrl.ok THEN links
        ELSE IF fullUrl.hostname = baseDomain
        THEN [links EXCEPT !.internal = Append(@, fullUrl.href)]
        ELSE IF endsWith(fullUrl.hostname, baseDomain)
        THEN [links EXCEPT !.subdomains = Append(@, fullUrl.href)]
        ELSE [links EXCEPT !.external = Append(@, fullUrl.href)]

\* processLink(link, result, baseDomain, baseUrl), as it changes
\* result.links
processLink(links, link, baseDomain, baseUrl) ==
    LET fullUrl == UrlOf(link, baseUrl)
    IN  IF Skipped(link) \/ ~fullUrl.ok THEN links
        ELSE IF fullUrl.hostname = baseDomain
        THEN [links EXCEPT !.internal = Append(@, fullUrl.href)]
        ELSE IF endsWith(fullUrl.hostname, Dot \o baseDomain)
        THEN [links EXCEPT !.subdomains = Append(@, fullUrl.href)]
        ELSE [links EXCEPT !.external = Append(@, fullUrl.href)]

\* while ((match = hrefRegex.exec(body)) !== null) processLink(...)
RECURSIVE ProcessLinks(_, _, _)
ProcessLinks(links, body, baseUrl) ==
    IF body = <<>> THEN links
    ELSE ProcessLinks(processLink(links, Head(body), UrlHost(baseUrl), baseUrl),
                      Tail(body), baseUrl)

\* the result object as extractLinks creates it
NewLinkResult ==
    [links |-> [internal |-> <<>>, external |-> <<>>, subdomains |-> <<>>],
     summary |-> <<>>,
     error |-> FALSE]

\* the try block of extractLinks once the page is read: the links, the
\* dedupe and the summary
extractLinks(body, baseUrl) ==
    LET found == ProcessLinks(NewLinkResult.links, body, baseUrl)
        links == [internal   |-> sort(SetOf(found.internal)),
                  external   |-> sort(SetOf(found.external)),
                  subdomains |-> sort(SetOf(found.subdomains))]
    IN  [links |-> links,
         summary |-> [internal_links  |-> Len(links.internal),
                      external_links  |-> Len(links.external),
                      subdomain_links |-> Len(links.subdomains)],
         error |-> FALSE]

LinkIdle ==
    /\ linkPc = "idle"
    /\ linkBody = <<>>
    /\ linkResult = NewLinkResult

\* extractLinks(url) up to the await of fetch
LinkStart ==
    /\ linkPc = "main"
    /\ linkResult' = NewLinkResult
    /\ linkPc' = "fetch"
    /\ UNCHANGED <<enumVars, scanVars, sslVars, corsVars, analyzeVars,
                   linkBody>>

\* the page is read and extractLinks runs to its return
LinkExtract ==
    /\ linkPc = "fetch"
    /\ \E body \in LinkBodies(MaxLinks) :
          /\ linkBody' = body
          /\ linkResult' = extractLinks(body, LinkBase)
    /\ linkPc' = "returned"
    /\ UNCHANGED <<enumVars, scanVars, sslVars, corsVars, analyzeVars>>

\* fetch or response.text() throws: the catch sets result.error
LinkError ==
    /\ linkPc = "fetch"
    /\ linkResult' = [linkResult EXCEPT !.error = TRUE]
    /\ linkPc' = "returned"
    /\ UNCHANGED <<enumVars, scanVars, sslVars, corsVars, analyzeVars,
                   linkBody>>

---------------------------------------------------------------------------
(* The tools at rest *)

OtherToolsIdle ==
    /\ ScanIdle
    /\ SslIdle
    /\ CorsIdle
    /\ AnalyzeIdle
    /\ LinkIdle

---------------------------------------------------------------------------
(* The run *)

Init ==
    /\ pc = "main"
    /\ domain \in Domains \cup {Undefined}
    /\ batchSize \in BatchSizes
    /\ response = NoResponse
    /\ crtSubdomains = <<>>
    /\ result = NewResult(Undefined)
    /\ allSubdomains = <<>>
    /\ i = 0
    /\ batch = <<>>
    /\ results = <<>>
    /\ inflight = {}
    /\ issued = <<>>
    /\ replies = <<>>
    /\ crtRequests = 0
    /\ output = <<>>
    /\ resolverSilent = FALSE
    /\ stderr = <<>>
    /\ exitCode = NotExited
    /\ OtherToolsIdle

\* faulty variant: the argument is tested after the request to crt.sh is
\* sent
UsageExit_AfterRequest ==
    /\ UNCHANGED otherTools
    /\ pc = "main"
    /\ domain = Undefined
    /\ crtRequests' = crtRequests + 1
    /\ stderr' = Append(stderr, UsageMessage)
    /\ exitCode' = Exited(1)
    /\ pc' = "exit1"
    /\ UNCHANGED <<domain, response, crtSubdomains, result, allSubdomains,
                   batchSize, i, batch, results, inflight, issued, replies,
                   output, resolverSilent>>

\* if (!domain) { console.error(usage); process.exit(1) }
UsageExit ==
    /\ UNCHANGED otherTools
    /\ UNCHANGED <<crtRequests, output, resolverSilent>>
    /\ pc = "main"
    /\ domain = Undefined
    /\ stderr' = Append(stderr, UsageMessage)
    /\ exitCode' = Exited(1)
    /\ pc' = "exit1"
    /\ UNCHANGED <<domain, response, crtSubdomains, result, allSubdomains,
                   batchSize, i, batch, results, inflight, issued, replies>>

\* enumerateSubdomains(domain) up to the await of fetchCrtSh: the result
\* object is created and the one request to crt.sh is sent
Start ==
    /\ UNCHANGED <<stderr, exitCode, otherTools>>
    /\ pc = "main"
    /\ domain # Undefined
    /\ result' = NewResult(domain)
    /\ crtRequests' = crtRequests + 1
    /\ UNCHANGED <<output, resolverSilent>>
    /\ pc' = "fetch"
    /\ UNCHANGED <<domain, response, crtSubdomains, allSubdomains,
                   batchSize, i, batch, results, inflight, issued, replies>>

\* faulty variant: a failed request is sent once more
FetchCrtSh_Retry ==
    /\ UNCHANGED <<stderr, exitCode, otherTools>>
    /\ pc = "fetch"
    /\ \E resp \in Responses :
          IF resp.kind # "ok" /\ crtRequests < 2
          THEN /\ crtRequests' = crtRequests + 1
               /\ UNCHANGED <<pc, response, crtSubdomains>>
          ELSE /\ response' = resp
               /\ crtSubdomains' = fetchCrtSh(domain, resp)
               /\ pc' = "merge"
               /\ UNCHANGED crtRequests
    /\ UNCHANGED <<domain, result, allSubdomains, batchSize, i, batch,
                   results, inflight, issued, replies, output,
                   resolverSilent>>

\* the request to crt.sh ends and fetchCrtSh returns
FetchCrtSh ==
    /\ UNCHANGED <<stderr, exitCode, otherTools>>
    /\ UNCHANGED <<crtRequests, output, resolverSilent>>
    /\ pc = "fetch"
    /\ \E resp \in Responses :
          /\ response' = resp
          /\ crtSubdomains' = fetchCrtSh(domain, resp)
    /\ pc' = "merge"
    /\ UNCHANGED <<domain, result, allSubdomains, batchSize, i, batch,
                   results, inflight, issued, replies>>

\* faulty variant: the certificate-log tally taken after the merge, a name
\* of both sources counted for the wordlist only
Sources_AfterMerge(crt, brute) ==
    ("crt.sh" :> Cardinality(Range(crt) \ Range(brute)))
        @@ ("bruteforce" :> Len(brute))

\* result.sources['crt.sh'] = crtSubdomains.length and
\* result.sources['bruteforce'] = bruteSubdomains.length
Sources(crt, brute) ==
    ("crt.sh" :> Len(crt)) @@ ("bruteforce" :> Len(brute))

\* the tallies, the merge, result.subdomains and total_found
Aggregate ==
    /\ UNCHANGED <<stderr, exitCode, otherTools>>
    /\ UNCHANGED <<crtRequests, output, resolverSilent>>
    /\ pc = "merge"
    /\ LET brute == bruteSubdomains(domain)
           all   == Combine(domain, crtSubdomains, brute)
       IN  /\ allSubdomains' = all
           /\ result' = [result EXCEPT
                  !.sources = Sources(crtSubdomains, brute),
                  !.subdomains = all,
                  !.summary.total_found = Len(all)]
    /\ i' = 0
    /\ pc' = "loop"
    /\ UNCHANGED <<domain, response, crtSubdomains, batchSize, batch,
                   results, inflight, issued, replies>>

\* faulty variant: only the first name of the batch is given to resolve4
\* before the await
DispatchBatch_OneAtATime ==
    /\ UNCHANGED <<stderr, exitCode, otherTools>>
    /\ pc = "loop"
    /\ i < Len(allSubdomains)
    /\ LET b == NextBatch(allSubdomains, i, batchSize)
       IN  /\ batch' = b
           /\ results' = PendingAll(b)
           /\ inflight' = inflight \cup {b[1]}
           /\ issued' = Append(issued, b[1])
    /\ pc' = "await"
    /\ UNCHANGED <<domain, response, crtSubdomains, result, allSubdomains,
                   batchSize, i, replies, crtRequests, output,
                   resolverSilent>>

\* the loop test holds: the next batch is sliced and every name of it is
\* given to resolve4 before Promise.all is awaited
DispatchBatch ==
    /\ UNCHANGED <<stderr, exitCode, otherTools>>
    /\ UNCHANGED <<crtRequests, output, resolverSilent>>
    /\ pc = "loop"
    /\ i < Len(allSubdomains)
    /\ LET b == NextBatch(allSubdomains, i, batchSize)
       IN  /\ batch' = b
           /\ results' = PendingAll(b)
           /\ inflight' = inflight \cup Range(b)
           /\ issued' = issued \o b
    /\ pc' = "await"
    /\ UNCHANGED <<domain, response, crtSubdomains, result, allSubdomains,
                   batchSize, i, replies>>

\* resolve4 answers one outstanding name and checkSubdomain settles
Resolve(k, reply) ==
    /\ UNCHANGED <<stderr, exitCode, otherTools>>
    /\ UNCHANGED <<crtRequests, output, resolverSilent>>
    /\ pc = "await"
    /\ ~resolverSilent
    /\ k \in 1..Len(results)
    /\ results[k].state = "pending"
    /\ results' = [results EXCEPT ![k] = checkSubdomain(batch[k], reply)]
    /\ inflight' = inflight \ {batch[k]}
    /\ replies' = (batch[k] :> reply) @@ replies
    /\ UNCHANGED <<pc, domain, response, crtSubdomains, result,
                   allSubdomains, batchSize, i, batch, issued>>

\* the resolver stops answering while names are outstanding: resolve4 is
\* awaited with no timer of the program's, so their promises stay pending
ResolverStops ==
    /\ UNCHANGED <<stderr, exitCode, otherTools>>
    /\ pc = "await"
    /\ inflight # {}
    /\ ~resolverSilent
    /\ resolverSilent' = TRUE
    /\ UNCHANGED <<pc, domain, response, crtSubdomains, result,
                   allSubdomains, batchSize, i, batch, results, inflight,
                   issued, replies, crtRequests, output>>

\* faulty variant: the names of the batch that did not resolve are dropped
\* from the candidate list of the result
JoinBatch_PruneDead ==
    /\ UNCHANGED <<stderr, exitCode, otherTools>>
    /\ UNCHANGED <<crtRequests, output, resolverSilent>>
    /\ pc = "await"
    /\ PromiseAll(results) # "pending"
    /\ IF PromiseAll(results) = "rejected"
       THEN /\ pc' = "rejected"
            /\ UNCHANGED <<result, i>>
       ELSE /\ result' = [result EXCEPT
                   !.alive = PushAlive(@, results),
                   !.subdomains = SelectSeq(@, LAMBDA n :
                       \A k \in 1..Len(results) :
                          results[k].value.subdomain = n
                             => results[k].value.alive)]
            /\ i' = NextIndex(i, batchSize)
            /\ pc' = "loop"
    /\ UNCHANGED <<domain, response, crtSubdomains, allSubdomains,
                   batchSize, batch, results, inflight, issued, replies>>

\* the await of Promise.all ends: the alive ones are pushed in the order
\* of the batch and the loop steps on; a rejection leaves the function
JoinBatch ==
    /\ UNCHANGED <<stderr, exitCode, otherTools>>
    /\ UNCHANGED <<crtRequests, output, resolverSilent>>
    /\ pc = "await"
    /\ PromiseAll(results) # "pending"
    /\ IF PromiseAll(results) = "rejected"
       THEN /\ pc' = "rejected"
            /\ UNCHANGED <<result, i>>
       ELSE /\ result' = [result EXCEPT !.alive = PushAlive(@, results)]
            /\ i' = NextIndex(i, batchSize)
            /\ pc' = "loop"
    /\ UNCHANGED <<domain, response, crtSubdomains, allSubdomains,
                   batchSize, batch, results, inflight, issued, replies>>

\* faulty variant: the result is returned with alive_count as created
Finish_StaleCount ==
    /\ UNCHANGED <<stderr, exitCode, otherTools>>
    /\ pc = "loop"
    /\ ~(i < Len(allSubdomains))
    /\ pc' = "returned"
    /\ UNCHANGED <<domain, response, crtSubdomains, result, allSubdomains,
                   batchSize, i, batch, results, inflight, issued, replies,
                   crtRequests, output, resolverSilent>>

\* the loop test fails: alive_count is set and the result returned
Finish ==
    /\ UNCHANGED <<stderr, exitCode, otherTools>>
    /\ UNCHANGED <<crtRequests, output, resolverSilent>>
    /\ pc = "loop"
    /\ ~(i < Len(allSubdomains))
    /\ result' = [result EXCEPT !.summary.alive_count = Len(result.alive)]
    /\ pc' = "returned"
    /\ UNCHANGED <<domain, response, crtSubdomains, allSubdomains,
                   batchSize, i, batch, results, inflight, issued, replies>>

\* faulty variant: the result object is printed without waiting for
\* enumerateSubdomains to return
Render_NoAwait ==
    /\ UNCHANGED <<stderr, exitCode, otherTools>>
    /\ pc \in {"loop", "await", "returned"}
    /\ output = <<>>
    /\ output' = Append(output, result)
    /\ pc' = IF pc = "returned" THEN "rendered" ELSE pc
    /\ UNCHANGED <<domain, response, crtSubdomains, result, allSubdomains,
                   batchSize, i, batch, results, inflight, issued, replies,
                   crtRequests, resolverSilent>>

\* .then(result => ...): the result is printed; nothing is left to run and
\* the process ends with the exit code nobody has set
Render ==
    /\ UNCHANGED otherTools
    /\ pc = "returned"
    /\ output' = Append(output, result)
    /\ exitCode' = Exited(0)
    /\ UNCHANGED stderr
    /\ UNCHANGED <<crtRequests, resolverSilent>>
    /\ pc' = "rendered"
    /\ UNCHANGED <<domain, response, crtSubdomains, result, allSubdomains,
                   batchSize, i, batch, results, inflight, issued, replies>>

Next ==
    \/ UsageExit
    \/ Start
    \/ FetchCrtSh
    \/ Aggregate
    \/ DispatchBatch
    \/ \E k \in 1..DefaultBatchSize, reply \in ResolverReplies : Resolve(k, reply)
    \/ JoinBatch
    \/ Finish
    \/ Render

Spec == Init /\ [][Next]_vars

\* the steps the program takes by itself or on the answer of crt.sh, whose
\* request ends by AbortSignal.timeout(15000) at the latest
ProgramStep ==
    \/ UsageExit
    \/ Start
    \/ FetchCrtSh
    \/ Aggregate
    \/ DispatchBatch
    \/ JoinBatch
    \/ Finish
    \/ Render

\* the run with a resolver that may stop answering
NextSilent ==
    \/ Next
    \/ ResolverStops

SilentSpec == Init /\ [][NextSilent]_vars

---------------------------------------------------------------------------
(* The runs of the other tools *)

\* subdomain-enum.js is not run
EnumIdle ==
    /\ pc = "idle"
    /\ domain = Undefined
    /\ batchSize = DefaultBatchSize
    /\ response = NoResponse
    /\ crtSubdomains = <<>>
    /\ result = NewResult(Undefined)
    /\ allSubdomains = <<>>
    /\ i = 0
    /\ batch = <<>>
    /\ results = <<>>
    /\ inflight = {}
    /\ issued = <<>>
    /\ replies = <<>>
    /\ crtRequests = 0
    /\ output = <<>>
    /\ resolverSilent = FALSE
    /\ stderr = <<>>
    /\ exitCode = NotExited

ScanInit ==
    /\ EnumIdle
    /\ SslIdle
    /\ CorsIdle
    /\ AnalyzeIdle
    /\ LinkIdle
    /\ scanPc = "main"
    /\ scanResponse = NoScanResponse
    /\ scanResult = NewScanResult

ScanNext ==
    \/ ScanStart
    \/ ScanHeaders
    \/ ScanPrint

ScanSpec == ScanInit /\ [][ScanNext]_vars

SslInit ==
    /\ EnumIdle
    /\ ScanIdle
    /\ CorsIdle
    /\ AnalyzeIdle
    /\ LinkIdle
    /\ sslPc = "main"
    /\ sslSocket = NoSocket
    /\ sslResult = checkSSL(NoSocket)

SslNext ==
    \/ SslConnect
    \/ SslResolve
    \/ SslPrint

SslSpec == SslInit /\ [][SslNext]_vars

CorsInit ==
    /\ EnumIdle
    /\ ScanIdle
    /\ SslIdle
    /\ AnalyzeIdle
    /\ LinkIdle
    /\ corsPc = "main"
    /\ corsUrl \in CorsUrls
    /\ corsSent = <<>>
    /\ corsResult = NewCorsResult

CorsNext ==
    \/ CorsStart
    \/ CorsSend
    \/ CorsSettle
    \/ CorsReturn

CorsSpec == CorsInit /\ [][CorsNext]_vars

AnalyzeInit ==
    /\ EnumIdle
    /\ ScanIdle
    /\ SslIdle
    /\ CorsIdle
    /\ LinkIdle
    /\ analyzePc = "main"
    /\ analyzeIdx = 0
    /\ analyzeResults = NewAnalyzeResults

AnalyzeNext ==
    \/ AnalyzeStart
    \/ AnalyzeTest
    \/ AnalyzeGet

AnalyzeSpec == AnalyzeInit /\ [][AnalyzeNext]_vars

LinkInit ==
    /\ EnumIdle
    /\ ScanIdle
    /\ SslIdle
    /\ CorsIdle
    /\ AnalyzeIdle
    /\ linkPc = "main"
    /\ linkBody = <<>>
    /\ linkResult = NewLinkResult

LinkNext ==
    \/ LinkStart
    \/ LinkExtract
    \/ LinkError

LinkSpec == LinkInit /\ [][LinkNext]_vars

---------------------------------------------------------------------------
(* The batch loop as a function of the batch size and the resolver's
   answers: what lines 121-137 leave in result.alive when every name n is
   answered by ReplyOf(n) *)

ReplyOf(n) ==
    IF n \in DOMAIN replies THEN replies[n]
    ELSE [ok |-> FALSE, addresses |-> <<>>]

RECURSIVE AliveWith(_, _, _, _)
AliveWith(all, from, size, alive) ==
    IF from < Len(all)
    THEN LET b  == NextBatch(all, from, size)
             rs == [k \in 1..Len(b) |-> checkSubdomain(b[k], ReplyOf(b[k]))]
         IN  AliveWith(all, NextIndex(from, size), size, PushAlive(alive, rs))
    ELSE alive

---------------------------------------------------------------------------
(* What the claims speak of *)

\* the candidate list has been built
Merged == pc \in {"loop", "await", "returned", "rendered", "rejected"}

\* enumerateSubdomains has returned
Returned == pc \in {"returned", "rendered"}

\* n equals dom or ends with "." followed by dom
BelongsTo(n, dom) == n = dom \/ endsWith(n, Dot \o dom)

AliveNames == [k \in 1..Len(result.alive) |-> result.alive[k].subdomain]

\* the position of a candidate in the candidate list
PositionOf(n) == CHOOSE p \in 1..Len(allSubdomains) : allSubdomains[p] = n

\* the resolver answered n with addresses
AnsweredAlive(n) == n \in DOMAIN replies /\ replies[n].ok

\* the names one line of a name_value field may carry
BodyHasName(n) ==
    /\ response.kind = "ok"
    /\ \A k \in 1..Len(response.data) : response.data[k].has_name_value
    /\ \E k \in 1..Len(response.data) :
          n \in Range(split(response.data[k].name_value, "\n"))

---------------------------------------------------------------------------
(* C1 *)

\* C1: suffix safety. Every name fetchCrtSh admits, and so every candidate,
\* equals Domain or ends with "." followed by Domain; for Domain
\* example.com the name sub.example.com of a response is admitted.
C1_SuffixSafety ==
    /\ \A k \in 1..Len(crtSubdomains) : BelongsTo(crtSubdomains[k], domain)
    /\ Merged =>
          \A k \in 1..Len(allSubdomains) : BelongsTo(allSubdomains[k], domain)
    /\ (pc # "fetch" /\ domain = example_com /\ BodyHasName(sub_example_com))
          => sub_example_com \in Range(crtSubdomains)

---------------------------------------------------------------------------
(* C2 *)

\* C2: peak concurrency. At every moment at most batchSize names are given
\* to the resolver and still unanswered.
C2_PeakConcurrency == Cardinality(inflight) <= batchSize

\* a full batch is outstanding while more candidates wait for their turn
C2_Witness ==
    /\ pc = "await"
    /\ Cardinality(inflight) = batchSize
    /\ batchSize >= 2
    /\ Len(allSubdomains) > i + batchSize

---------------------------------------------------------------------------
(* C3 *)

\* C3: ordering guarantee. Whatever the order in which the resolutions of a
\* batch complete, the alive list keeps the order of the candidate list,
\* and in the returned result it is the candidate list restricted to the
\* names the resolver answered with addresses.
C3_OrderingGuarantee ==
    /\ \A p, q \in 1..Len(result.alive) :
          p < q => /\ AliveNames[p] \in Range(allSubdomains)
                   /\ AliveNames[q] \in Range(allSubdomains)
                   /\ PositionOf(AliveNames[p]) < PositionOf(AliveNames[q])
    /\ Returned => AliveNames = SelectSeq(allSubdomains, AnsweredAlive)

\* a later name of the batch has completed alive before an earlier one,
\* which is still outstanding, and earlier batches have left alive entries
C3_Witness ==
    /\ pc = "await"
    /\ Len(result.alive) >= 1
    /\ \E k, j \in 1..Len(results) :
          /\ k < j
          /\ results[k].state = "pending"
          /\ results[j].state = "fulfilled"
          /\ results[j].value.alive

---------------------------------------------------------------------------
(* C4 *)

\* C4: fault isolation. A failed resolution never ends the run; every
\* settled promise of a batch carries its own name's answer, and in the
\* returned result every candidate has been answered and is in the alive
\* list exactly if its own answer carried addresses.
C4_FaultIsolation ==
    /\ pc # "rejected"
    /\ pc = "await" =>
          \A k \in 1..Len(results) :
             results[k].state # "pending" =>
                /\ results[k].state = "fulfilled"
                /\ results[k].value.subdomain = batch[k]
                /\ results[k].value.alive = AnsweredAlive(batch[k])
    /\ Returned =>
          \A p \in 1..Len(allSubdomains) :
             /\ allSubdomains[p] \in DOMAIN replies
             /\ (allSubdomains[p] \in Range(AliveNames))
                   <=> replies[allSubdomains[p]].ok

\* the first candidate failed; the second, of the same batch, and the
\* third, of the next batch, are alive in the returned result
C4_Witness ==
    /\ Returned
    /\ batchSize = 2
    /\ Len(allSubdomains) >= 3
    /\ ~replies[allSubdomains[1]].ok
    /\ allSubdomains[2] \in Range(AliveNames)
    /\ allSubdomains[3] \in Range(AliveNames)

---------------------------------------------------------------------------
(* C5 *)

\* C5: strict batch sequencing. A step that gives names to the resolver is
\* taken only when no earlier name is still unanswered.
C5_BatchSequencing == [][issued' # issued => inflight = {}]_vars

\* the second batch is outstanding and the first one held a failure
C5_Witness ==
    /\ pc = "await"
    /\ i > 0
    /\ inflight # {}
    /\ \E p \in 1..i : ~replies[allSubdomains[p]].ok

---------------------------------------------------------------------------
(* C6 *)

\* C6: batch-size invariance. The returned alive list is the one the loop
\* leaves for every batch size, the answers of the resolver being equal.
C6_BatchSizeInvariance ==
    Returned =>
       \A size \in BatchSizes :
          result.alive = AliveWith(allSubdomains, 0, size, <<>>)

\* a run of two batches of size 5 that found alive names in both
C6_Witness ==
    /\ Returned
    /\ batchSize = 5
    /\ Len(allSubdomains) > 5
    /\ Len(result.alive) >= 2
    /\ AnsweredAlive(allSubdomains[1])
    /\ AnsweredAlive(allSubdomains[Len(allSubdomains)])

---------------------------------------------------------------------------
(* C7 *)

api_example_com  == <<"a","p","i",".","e","x","a","m","p","l","e",".","c","o","m">>
mail_example_com == <<"m","a","i","l",".","e","x","a","m","p","l","e",".","c","o","m">>

\* C7: the example scenario. Domain example.com, the certificate source
\* answering www.example.com, *.api.example.com and EVIL-example.com, the
\* wordlist www, mail: the candidate list is api.example.com, example.com,
\* mail.example.com, www.example.com.
C7_ExampleScenario ==
    (/\ Merged
     /\ domain = example_com
     /\ response = [kind |-> "ok", data |-> ExampleBody]
     /\ COMMON_SUBDOMAINS = << <<"w","w","w">>, <<"m","a","i","l">> >>)
       => allSubdomains =
             <<api_example_com, example_com, mail_example_com, www_example_com>>

---------------------------------------------------------------------------
(* C8 *)

\* C8: aggregation. The candidate list holds exactly Domain, the names
\* fetchCrtSh returned and label.Domain for every label, each once, in
\* ascending order.
C8_Aggregation ==
    Merged =>
       /\ Range(allSubdomains) =
             {domain} \cup Range(crtSubdomains)
                \cup { COMMON_SUBDOMAINS[k] \o Dot \o domain :
                          k \in 1..Len(COMMON_SUBDOMAINS) }
       /\ \A p, q \in 1..Len(allSubdomains) :
             p < q => /\ allSubdomains[p] # allSubdomains[q]
                      /\ StringLess(allSubdomains[p], allSubdomains[q])
       /\ result.subdomains = allSubdomains

\* the certificate log and the wordlist both produced www.example.com
C8_Witness ==
    /\ Merged
    /\ www_example_com \in Range(crtSubdomains)
    /\ www_example_com \in Range(bruteSubdomains(domain))
    /\ Len(crtSubdomains) >= 2

---------------------------------------------------------------------------
(* C9 *)

\* C9: superset property. The candidate list contains Domain in every run.
C9_Superset ==
    Merged => /\ domain \in Range(allSubdomains)
              /\ domain \in Range(result.subdomains)

\* the certificate source failed and the list still holds Domain
C9_Witness ==
    /\ Merged
    /\ response.kind = "network_error"
    /\ crtSubdomains = <<>>
    /\ domain \in Range(allSubdomains)

---------------------------------------------------------------------------
(* C10 *)

\* C10: case normalization. Every candidate is lower-case, no two
\* candidates differ only in letter case, and the suffix test does not
\* depend on the case in which the caller typed Domain.
C10_CaseNormalization ==
    Merged =>
       /\ \A k \in 1..Len(allSubdomains) :
             allSubdomains[k] = toLowerCase(allSubdomains[k])
       /\ \A p, q \in 1..Len(allSubdomains) :
             p # q => toLowerCase(allSubdomains[p]) # toLowerCase(allSubdomains[q])
       /\ (toLowerCase(domain) = example_com /\ BodyHasName(sub_example_com))
             => sub_example_com \in Range(allSubdomains)

---------------------------------------------------------------------------
(* C11 *)

\* the lines of the name_value fields of the response
BodyLines ==
    IF response.kind = "ok"
          /\ \A k \in 1..Len(response.data) : response.data[k].has_name_value
    THEN UNION { Range(split(response.data[k].name_value, "\n")) :
                    k \in 1..Len(response.data) }
    ELSE {}

\* a line without its leading "*." marker, if it has one
StripLeadingWildcard(s) ==
    IF Len(s) >= 2 /\ SubSeq(s, 1, 2) = <<"*", ".">>
    THEN SubSeq(s, 3, Len(s))
    ELSE s

\* C11: wildcard handling. Only a leading "*." is stripped from a line and
\* a line that still holds "*" is discarded: every name fetchCrtSh returns
\* is a line of the response without its leading marker, trimmed and
\* lower-cased, and neither it nor any candidate contains "*".
C11_WildcardHandling ==
    /\ \A k \in 1..Len(crtSubdomains) :
          /\ ~includes(crtSubdomains[k], <<"*">>)
          /\ \E line \in BodyLines :
                toLowerCase(trim(StripLeadingWildcard(line))) = crtSubdomains[k]
    /\ Merged =>
          \A k \in 1..Len(allSubdomains) : ~includes(allSubdomains[k], <<"*">>)

---------------------------------------------------------------------------
(* C12 *)

\* C12: outcome classification. Every alive entry is a name the resolver
\* answered with addresses and carries exactly these, one or more; every
\* settled promise of a failed resolution holds alive = false and no
\* addresses; in the returned result a candidate is in the alive list
\* exactly if its resolution returned addresses.
C12_OutcomeClassification ==
    /\ \A k \in 1..Len(result.alive) :
          /\ AnsweredAlive(result.alive[k].subdomain)
          /\ result.alive[k].addresses = replies[result.alive[k].subdomain].addresses
          /\ result.alive[k].addresses # <<>>
    /\ pc = "await" =>
          \A k \in 1..Len(results) :
             (results[k].state = "fulfilled" /\ ~AnsweredAlive(batch[k])) =>
                /\ ~results[k].value.alive
                /\ results[k].value.addresses = <<>>
    /\ Returned =>
          \A p \in 1..Len(allSubdomains) :
             AnsweredAlive(allSubdomains[p]) <=>
                \E k \in 1..Len(result.alive) :
                   result.alive[k].subdomain = allSubdomains[p]

\* the returned result holds an entry with two addresses and one with one,
\* and a candidate whose resolution failed is not in it
C12_Witness ==
    /\ Returned
    /\ \E k \in 1..Len(result.alive) : Len(result.alive[k].addresses) = 2
    /\ \E k \in 1..Len(result.alive) : Len(result.alive[k].addresses) = 1
    /\ \E p \in 1..Len(allSubdomains) :
          /\ ~replies[allSubdomains[p]].ok
          /\ allSubdomains[p] \notin Range(AliveNames)

---------------------------------------------------------------------------
(* C13 *)

\* the request to crt.sh failed or its body was malformed
SoftFailure ==
    /\ response # NoResponse
    /\ \/ response.kind # "ok"
       \/ \E k \in 1..Len(response.data) : ~response.data[k].has_name_value

\* C13: soft failure of the certificate-transparency source. After a
\* network error, a timeout, a non-success status or a malformed body
\* fetchCrtSh has returned the empty list, the run goes on and is never
\* rejected, the tally of the source is 0 and the candidate list holds
\* Domain and the bruteforce names only.
C13_SoftFailure ==
    SoftFailure =>
       /\ crtSubdomains = <<>>
       /\ pc # "rejected"
       /\ Merged =>
             /\ result.sources["crt.sh"] = 0
             /\ Range(allSubdomains) =
                   {domain} \cup Range(bruteSubdomains(domain))

\* a run whose response held a record without name_value has returned
C13_Witness ==
    /\ Returned
    /\ response.kind = "ok"
    /\ \E k \in 1..Len(response.data) : ~response.data[k].has_name_value
    /\ Len(allSubdomains) = 1 + Len(COMMON_SUBDOMAINS)

---------------------------------------------------------------------------
(* C14 *)

\* how often n was given to the resolver
TimesIssued(n) == Cardinality({ k \in 1..Len(issued) : issued[k] = n })

\* C14: no retries. No name is given to the resolver twice, only
\* candidates are given to it, and when the result is returned every
\* candidate has been given to it exactly once.
C14_NoRetries ==
    /\ \A k \in 1..Len(issued) :
          /\ TimesIssued(issued[k]) = 1
          /\ issued[k] \in Range(allSubdomains)
    /\ Returned =>
          \A p \in 1..Len(allSubdomains) : TimesIssued(allSubdomains[p]) = 1

\* the result is returned after a run of several batches in which a
\* resolution failed
C14_Witness ==
    /\ Returned
    /\ Len(issued) > batchSize
    /\ \E p \in 1..Len(allSubdomains) : ~replies[allSubdomains[p]].ok

---------------------------------------------------------------------------
(* C15 *)

\* C15: termination with bounded hang. Also when the resolver has stopped
\* answering, the run has ended or can go on by a step of the program's
\* own: no batch join waits on the resolver alone.
C15_Termination ==
    resolverSilent => (pc \in {"exit1", "rendered"} \/ ENABLED ProgramStep)

---------------------------------------------------------------------------
(* C16 *)

\* C16: no delay across failures. When the last outstanding resolution of
\* a batch ends in a failure, no candidate has been kept from the resolver
\* until then.
C16_NoDelay ==
    [][(\E n \in inflight :
           /\ inflight = {n}
           /\ n \notin DOMAIN replies
           /\ n \in DOMAIN replies'
           /\ ~replies'[n].ok)
          => Range(allSubdomains) \subseteq Range(issued)]_vars

\* C16, amended: within its batch an outstanding or failed resolution
\* holds back no other name, every name of the batch being at the resolver
\* from the dispatch on; the candidates not yet given to the resolver are
\* exactly those of the later batches.
C16_NoDelayInBatch ==
    /\ pc = "await" =>
          \A k \in 1..Len(batch) :
             results[k].state = "pending" => batch[k] \in inflight
    /\ Merged =>
          \A p \in 1..Len(allSubdomains) :
             (allSubdomains[p] \notin Range(issued))
                <=> p > (IF pc = "await" THEN i + batchSize ELSE i)

\* the first name of a batch has failed, the second is at the resolver,
\* and a later batch waits
C16_Witness ==
    /\ pc = "await"
    /\ Len(batch) >= 2
    /\ results[1].state = "fulfilled"
    /\ ~results[1].value.alive
    /\ results[2].state = "pending"
    /\ batch[2] \in inflight
    /\ Len(allSubdomains) > i + batchSize

---------------------------------------------------------------------------
(* C17 *)

\* C17: summary counts. In the returned result and in the one handed to
\* the renderer total_found is the length of the candidate list and
\* alive_count the length of the alive list.
C17_SummaryCounts ==
    /\ Returned =>
          /\ result.summary.total_found = Len(result.subdomains)
          /\ result.summary.alive_count = Len(result.alive)
    /\ \A k \in 1..Len(output) :
          /\ output[k].summary.total_found = Len(output[k].subdomains)
          /\ output[k].summary.alive_count = Len(output[k].alive)

\* a result with several candidates and two alive ones was handed over
C17_Witness ==
    /\ output # <<>>
    /\ output[1].summary.total_found >= 4
    /\ output[1].summary.alive_count = 2

---------------------------------------------------------------------------
(* C18 *)

\* C18: source tally. Each tally is the number of names its source
\* contributed, counted before the merge: a name of both sources is
\* counted in both, so the two tallies add up to the candidates other than
\* Domain, plus the names both sources produced, plus one if the
\* certificate log produced Domain itself.
C18_SourceTally ==
    Merged =>
       /\ DOMAIN result.sources = {"crt.sh", "bruteforce"}
       /\ result.sources["crt.sh"] = Cardinality(Range(crtSubdomains))
       /\ result.sources["bruteforce"] = Len(COMMON_SUBDOMAINS)
       /\ result.sources["crt.sh"] + result.sources["bruteforce"] =
             Cardinality(Range(allSubdomains) \ {domain})
                + Cardinality(Range(crtSubdomains)
                                 \cap Range(bruteSubdomains(domain)))
                + (IF domain \in Range(crtSubdomains) THEN 1 ELSE 0)

\* the certificate log and the wordlist produced the same name, which
\* both tallies count
C18_Witness ==
    /\ Merged
    /\ Range(crtSubdomains) \cap Range(bruteSubdomains(domain)) # {}
    /\ result.sources["crt.sh"] + result.sources["bruteforce"]
          >= Len(allSubdomains)

---------------------------------------------------------------------------
(* C19 *)

\* C19: no partial report. A result is handed to the renderer at most
\* once; when it has been, every batch is complete, every candidate is
\* answered, the summary counts are set and the result object is still
\* what was handed over; the usage exit hands over nothing.
C19_NoPartialReport ==
    /\ Len(output) <= 1
    /\ (pc = "exit1" \/ domain = Undefined) => output = <<>>
    /\ output # <<>> =>
          /\ pc = "rendered"
          /\ output[1] = result
          /\ ~(i < Len(allSubdomains))
          /\ inflight = {}
          /\ Range(allSubdomains) \subseteq DOMAIN replies
          /\ output[1].subdomains = allSubdomains
          /\ output[1].summary.total_found = Len(allSubdomains)
          /\ output[1].summary.alive_count = Len(result.alive)
          /\ Range(AliveNames) = { n \in Range(allSubdomains) : replies[n].ok }

\* the result of a run of several batches with alive names was handed over
C19_Witness ==
    /\ Len(output) = 1
    /\ Len(issued) > batchSize
    /\ Len(output[1].alive) >= 1

---------------------------------------------------------------------------
(* C20 *)

\* C20: phase ordering. A run with a domain sends one request to crt.sh,
\* a run without one sends none; a name is given to the resolver only
\* after the request has ended and the candidate list, with the names of
\* every source in it, is built.
C20_PhaseOrdering ==
    /\ crtRequests = (IF pc \in {"main", "exit1"} THEN 0 ELSE 1)
    /\ issued # <<>> =>
          /\ response # NoResponse
          /\ Merged
          /\ result.subdomains = allSubdomains
          /\ Range(issued) \subseteq Range(allSubdomains)
          /\ Range(crtSubdomains) \cup Range(bruteSubdomains(domain))
                \cup {domain} \subseteq Range(allSubdomains)

\* the first batch is at the resolver, after a request that returned names
C20_Witness ==
    /\ pc = "await"
    /\ i = 0
    /\ inflight # {}
    /\ crtRequests = 1
    /\ Len(crtSubdomains) >= 2

---------------------------------------------------------------------------
(* C21 *)

\* C21: invocation error. Without a domain argument the run writes the
\* usage message to standard error and ends with exit code 1, no request
\* to crt.sh and no name given to the resolver before; with a domain
\* argument nothing is written to standard error and the only exit code the
\* run ends with is 0, which it has as soon as the result is printed,
\* whether or not a candidate is alive.
C21_InvocationError ==
    /\ domain = Undefined =>
          /\ crtRequests = 0
          /\ issued = <<>>
          /\ output = <<>>
          /\ pc \in {"main", "exit1"}
          /\ pc = "exit1" <=> (exitCode = Exited(1) /\ stderr = <<UsageMessage>>)
          /\ pc = "main" <=> (exitCode = NotExited /\ stderr = <<>>)
    /\ domain # Undefined =>
          /\ stderr = <<>>
          /\ exitCode \in {NotExited, Exited(0)}
          /\ pc \notin {"exit1", "rejected"}
          /\ pc = "rendered" <=> exitCode = Exited(0)

\* a run with a domain has ended with no candidate alive
C21_Witness ==
    /\ domain # Undefined
    /\ exitCode = Exited(0)
    /\ result.alive = <<>>
    /\ Len(allSubdomains) >= 3

\* the run without a domain has ended
C21_WitnessUsage ==
    /\ domain = Undefined
    /\ exitCode = Exited(1)

---------------------------------------------------------------------------
(* C22 *)

\* the resolution phase: the candidate list is built and the result is not
\* yet returned
Resolving == pc \in {"loop", "await"}

\* C22: the candidate list is frozen during resolution. From the merge on
\* the candidate list of the result is the merged list and total_found its
\* length; no step of the resolution phase changes the list, its order or
\* total_found, and a step that stays in the phase changes nothing of the
\* result but the alive list.
C22_FrozenCandidateSet ==
    /\ [](Merged => /\ result.subdomains = allSubdomains
                    /\ result.summary.total_found = Len(allSubdomains))
    /\ [][Resolving =>
             /\ allSubdomains' = allSubdomains
             /\ result'.subdomains = result.subdomains
             /\ result'.summary.total_found = result.summary.total_found
             /\ Resolving' =>
                   result' = [result EXCEPT !.alive = result'.alive]]_vars

\* a batch with a failed and an alive name has been joined, another one
\* is to come
C22_Witness ==
    /\ pc = "loop"
    /\ i > 0
    /\ i < Len(allSubdomains)
    /\ Len(result.alive) >= 1
    /\ \E p \in 1..i : ~replies[allSubdomains[p]].ok

---------------------------------------------------------------------------
(* C23 *)

\* the lists that hold the elements of s in another order
Reorderings(s) ==
    { [k \in 1..Len(s) |-> s[f[k]]] : f \in Permutations(1..Len(s)) }

\* the merge has just run
JustMerged == pc = "loop" /\ i = 0

\* C23: dedup idempotence. The candidate list the merge has built is what
\* the merge gives for the domain and the outputs of the two sources
\* whenever it is run again, also when a source lists its names in another
\* order or lists them twice.
C23_DedupIdempotence ==
    JustMerged =>
       /\ Combine(domain, crtSubdomains, bruteSubdomains(domain)) = allSubdomains
       /\ \A crt \in Reorderings(crtSubdomains),
             brute \in Reorderings(bruteSubdomains(domain)) :
             Combine(domain, crt, brute) = allSubdomains
       /\ Combine(domain, crtSubdomains \o crtSubdomains,
                  bruteSubdomains(domain) \o bruteSubdomains(domain))
             = allSubdomains

\* the certificate log returned three names that are not in ascending
\* order
C23_Witness ==
    /\ JustMerged
    /\ Len(crtSubdomains) >= 3
    /\ \E k \in 1..(Len(crtSubdomains) - 1) :
          StringLess(crtSubdomains[k + 1], crtSubdomains[k])

---------------------------------------------------------------------------
(* C30 *)

\* s is the beginning of t
IsPrefix(s, t) == Len(s) <= Len(t) /\ SubSeq(t, 1, Len(s)) = s

\* C30: the alive list. In every state it holds only candidates, none
\* twice, and no more entries than total_found; every step leaves the
\* entries it holds in place and unchanged, new ones coming after them.
C30_AliveList ==
    /\ [](/\ \A k \in 1..Len(result.alive) :
                result.alive[k].subdomain \in Range(allSubdomains)
          /\ \A p, q \in 1..Len(result.alive) :
                p # q => result.alive[p].subdomain # result.alive[q].subdomain
          /\ Merged => Len(result.alive) <= result.summary.total_found)
    /\ [][IsPrefix(result.alive, result'.alive)]_vars

\* the second batch has added entries behind those of the first
C30_Witness ==
    /\ pc = "loop"
    /\ i >= 2 * batchSize
    /\ Len(result.alive) >= 3
    /\ AnsweredAlive(allSubdomains[1])
    /\ \E p \in 1..Len(allSubdomains) : ~AnsweredAlive(allSubdomains[p])

---------------------------------------------------------------------------
(* C25 *)

\* scanHeaders has returned a result without error
Scanned == scanPc \in {"returned", "printed"} /\ ~scanResult.error

\* round(p / 8 * 100) for p = 0..8
RoundedPercent == <<0, 13, 25, 38, 50, 63, 75, 88, 100>>

\* A best, F worst
GradeRank(g) ==
    CASE g = "A" -> 5 [] g = "B" -> 4 [] g = "C" -> 3 [] g = "D" -> 2
      [] g = "F" -> 1

\* how often the header with key k is in the list
TimesListed(k, list) == Cardinality({ p \in 1..Len(list) : list[p].key = k })

\* C25: header-scan scoring. In a result without error each of the 8
\* security headers is once in the present list or once in the missing
\* list, never in both; the score is round(present / 8 * 100), in 0..100;
\* the grade is A from 90, B from 75, C from 60, D from 40, else F; and
\* with one more header present the grade would be no worse.
C25_HeaderScoring ==
    Scanned =>
       LET sec == scanResult.security
           p   == Len(sec.present)
       IN  /\ Len(SECURITY_HEADERS) = 8
           /\ \A k \in HeaderKeys :
                 TimesListed(k, sec.present) + TimesListed(k, sec.missing) = 1
           /\ sec.score = RoundedPercent[p + 1]
           /\ sec.score \in 0..100
           /\ sec.grade = (IF sec.score >= 90 THEN "A"
                           ELSE IF sec.score >= 75 THEN "B"
                           ELSE IF sec.score >= 60 THEN "C"
                           ELSE IF sec.score >= 40 THEN "D" ELSE "F")
           /\ p < 8 =>
                 GradeRank(getGrade(SecurityScore(p + 1, Len(SECURITY_HEADERS))))
                    >= GradeRank(sec.grade)

\* five headers present, one of the others sent with an empty value: the
\* score is 63 and the grade C
C25_Witness ==
    /\ Scanned
    /\ Len(scanResult.security.present) = 5
    /\ scanResult.security.score = 63
    /\ scanResult.security.grade = "C"
    /\ \E k \in HeaderKeys : scanResponse.headers[k] = ""

---------------------------------------------------------------------------
(* C24 *)

\* the result holds an issue of critical severity
HasCritical(res) ==
    \E k \in 1..Len(res.issues) : res.issues[k].severity = "critical"

\* C24: ssl-checker grading. A printed result that did not connect is
\* graded N/A and a connected one is not, its grade being the one of its
\* score brought into 0..100; a connected result that holds a critical
\* issue is graded F, whatever its other issues, the library's verdict on
\* the certificate and the protocol.
C24_Grading ==
    sslPc = "printed" =>
       /\ ~sslResult.connected <=> sslResult.grade = "N/A"
       /\ sslResult.connected =>
             /\ ClampScore(RawScore(sslResult)) \in 0..100
             /\ sslResult.grade \in {"A", "B", "C", "D", "F"}
             /\ HasCritical(sslResult) => sslResult.grade = "F"

---------------------------------------------------------------------------
(* C26 *)

\* how many records of result.tests have the status
TestsWithStatus(status) ==
    Cardinality({ k \in 1..Len(corsResult.tests) :
                     corsResult.tests[k].status = status })

\* C26: the test loop of cors-check. The requests are sent one after
\* another, in the order of the six test origins, each after the record of
\* the one before is written; every request that has ended, with a
\* response or by throwing, has left exactly one record, that of its test;
\* total_tests counts the records and vulnerable, secure and the error
\* records add up to it; the result is returned with six records.
C26_TestLoop ==
    corsPc # "idle" =>
       LET tests == corsResult.tests
           plan  == testOrigins(NormalizeTarget(corsUrl))
       IN  /\ Len(plan) = 6
           /\ Len(corsSent) = Len(tests) + (IF corsPc = "await" THEN 1 ELSE 0)
           /\ \A k \in 1..Len(corsSent) : corsSent[k] = plan[k].origin
           /\ \A k \in 1..Len(tests) :
                 /\ tests[k].test = plan[k].name
                 /\ tests[k].origin_sent = plan[k].origin
           /\ corsResult.summary.total_tests = Len(tests)
           /\ corsResult.summary.vulnerable + corsResult.summary.secure
                 + TestsWithStatus("error") = corsResult.summary.total_tests
           /\ corsPc = "returned" =>
                 /\ Len(tests) = 6
                 /\ corsResult.summary.total_tests = 6

\* the second and the last request threw, the others were answered, one
\* of them with a bare wildcard
C26_Witness ==
    /\ corsPc = "returned"
    /\ corsResult.tests[2].status = "error"
    /\ corsResult.tests[6].status = "error"
    /\ corsResult.tests[3].status = "vulnerable"
    /\ corsResult.tests[4].status = "warning"
    /\ corsResult.summary.secure = 3

---------------------------------------------------------------------------
(* C29 *)

\* C29: the risk level of cors-check. In the returned result vulnerable is
\* the number of entries of result.vulnerabilities and risk_level is the
\* highest severity among them: CRITICAL if one is CRITICAL, else HIGH if
\* one is HIGH, else MEDIUM if there is one, NONE exactly if there is
\* none; it is never LOW.
C29_RiskLevel ==
    corsPc = "returned" =>
       LET vulns == corsResult.vulnerabilities
           sevs  == { vulns[k].severity : k \in 1..Len(vulns) }
       IN  /\ corsResult.summary.vulnerable = Len(vulns)
           /\ sevs \subseteq {"CRITICAL", "HIGH", "MEDIUM"}
           /\ corsResult.risk_level =
                 (IF "CRITICAL" \in sevs THEN "CRITICAL"
                  ELSE IF "HIGH" \in sevs THEN "HIGH"
                  ELSE IF vulns # <<>> THEN "MEDIUM"
                  ELSE "NONE")
           /\ corsResult.risk_level = "NONE" <=> vulns = <<>>
           /\ corsResult.risk_level # "LOW"

\* vulnerabilities of all three severities were found, a request threw
C29_Witness ==
    /\ corsPc = "returned"
    /\ corsResult.risk_level = "CRITICAL"
    /\ SomeSeverity(corsResult.vulnerabilities, "HIGH")
    /\ SomeSeverity(corsResult.vulnerabilities, "MEDIUM")
    /\ corsResult.summary.vulnerable = 3
    /\ TestsWithStatus("error") = 1

---------------------------------------------------------------------------
(* C28 *)

\* info lowest, critical highest
SeverityRank(severity) ==
    CASE severity = "info" -> 0
      [] severity = "medium" -> 1
      [] severity = "high" -> 2
      [] severity = "critical" -> 3

\* the highest severity among the findings, info when there are none
HighestSeverity(findings) ==
    IF findings = <<>> THEN "info"
    ELSE CHOOSE sev \in { findings[k].severity : k \in 1..Len(findings) } :
            \A k \in 1..Len(findings) :
               SeverityRank(findings[k].severity) <= SeverityRank(sev)

\* C28: the overall severity of cors-checker. After every processed
\* response results.severity is the highest severity among
\* results.findings, info when there are none, and no lower than before.
C28_OverallSeverity ==
    [][/\ analyzeResults'.severity = HighestSeverity(analyzeResults'.findings)
       /\ SeverityRank(analyzeResults'.severity)
             >= SeverityRank(analyzeResults.severity)]_vars

---------------------------------------------------------------------------
(* C27 *)

\* extractLinks has returned
LinksReturned == linkPc = "returned"

\* the list holds no entry twice and is in ascending order
SortedSet(list) ==
    \A p, q \in 1..Len(list) : p < q => StringLess(list[p], list[q])

\* the href of the link is in the list of its host, and in no other
InItsList(link) ==
    LET u     == UrlOf(link, LinkBase)
        base  == UrlHost(LinkBase)
        links == linkResult.links
    IN  /\ (u.href \in Range(links.internal)) <=> (u.hostname = base)
        /\ (u.href \in Range(links.subdomains))
              <=> endsWith(u.hostname, Dot \o base)
        /\ (u.href \in Range(links.external))
              <=> (u.hostname # base /\ ~endsWith(u.hostname, Dot \o base))

\* the three lists are duplicate-free and sorted
ListsSorted ==
    /\ SortedSet(linkResult.links.internal)
    /\ SortedSet(linkResult.links.subdomains)
    /\ SortedSet(linkResult.links.external)

\* the summary holds the three counts, which are the lengths of the lists
CountsAreLengths ==
    /\ {"internal_links", "external_links", "subdomain_links"}
          \subseteq DOMAIN linkResult.summary
    /\ linkResult.summary.internal_links = Len(linkResult.links.internal)
    /\ linkResult.summary.external_links = Len(linkResult.links.external)
    /\ linkResult.summary.subdomain_links = Len(linkResult.links.subdomains)

evilexample_link == <<"h","t","t","p","s",":","/","/","e","v","i","l","e","x","a","m","p","l","e",".","c","o","m","/">>

\* C27: link-extractor classification. In the returned result every href
\* of the page that parses as a URL is in exactly one of the three lists,
\* the one of its host; https://evilexample.com/ is external; each list
\* is duplicate-free and sorted and the summary counts are the lengths.
C27_Classification ==
    LinksReturned =>
       /\ \A k \in 1..Len(linkBody) :
             UrlOf(linkBody[k], LinkBase).ok => InItsList(linkBody[k])
       /\ evilexample_link \in Range(linkBody)
             => evilexample_link \in Range(linkResult.links.external)
       /\ ListsSorted
       /\ CountsAreLengths

\* C27, amended: in a result returned without error every href that
\* processLink does not skip (one that does not start with #, javascript:,
\* data: or mailto:) and that parses as a URL is in exactly one of the
\* three lists, the one of its host, and the lists hold nothing else;
\* https://evilexample.com/ is external; each list is duplicate-free and
\* sorted and the summary counts are the lengths. A result with error
\* has empty lists and no counts.
C27_ClassificationOfProcessed ==
    LinksReturned =>
       IF linkResult.error
       THEN /\ linkResult.links = NewLinkResult.links
            /\ DOMAIN linkResult.summary = {}
       ELSE /\ \A k \in 1..Len(linkBody) :
                  (~Skipped(linkBody[k]) /\ UrlOf(linkBody[k], LinkBase).ok)
                     => InItsList(linkBody[k])
            /\ Range(linkResult.links.internal)
                  \cup Range(linkResult.links.subdomains)
                  \cup Range(linkResult.links.external)
                  = { UrlOf(linkBody[k], LinkBase).href :
                        k \in { j \in 1..Len(linkBody) :
                                  /\ ~Skipped(linkBody[j])
                                  /\ UrlOf(linkBody[j], LinkBase).ok } }
            /\ evilexample_link \in Range(linkBody)
                  => evilexample_link \in Range(linkResult.links.external)
            /\ ListsSorted
            /\ CountsAreLengths

\* a page with two spellings of one internal link and a link to
\* evilexample.com: one internal entry, one external
C27_Witness ==
    /\ LinksReturned
    /\ ~linkResult.error
    /\ Len(linkBody) = 3
    /\ evilexample_link \in Range(linkBody)
    /\ linkResult.summary.internal_links = 1
    /\ linkResult.summary.external_links = 1
    /\ Cardinality({ k \in 1..3 :
                       UrlOf(linkBody[k], LinkBase).hostname = example_com }) = 2

===========================================================================
